---- MODULE Spec2Model ----
(***************************************************************************)
(* Model of benchmark.py: the replication / erasure-coding estimators,     *)
(* the comparison report builder and the scenario driver main().           *)
(*                                                                         *)
(* Numbers.  Python floats are modelled by exact rationals <<n, d>> in     *)
(* lowest terms with d > 0; the decimal literals of the source (1.5, 1.1,  *)
(* 1.2, 0.5, 15.0, 12.0, 3.0) are the rationals they denote.  The model    *)
(* therefore does not see binary rounding in the last place of a float.    *)
(* A Python division raises ZeroDivisionError when the divisor is zero;    *)
(* the model returns a result with ok = FALSE at that point.               *)
(***************************************************************************)
EXTENDS Integers, Sequences, FiniteSets, TLC

\* ---------------------------------------------------------------------
\* Bounds of the model
\* ---------------------------------------------------------------------

\* Direct calls use the sizes 0..MaxSize in addition to main's size list.
MaxSize == 2

\* Number of direct calls (outside main) in one behaviour.
MaxCalls == 2

\* ---------------------------------------------------------------------
\* Exact rational arithmetic (the float operators of the source)
\* ---------------------------------------------------------------------

Abs(x) == IF x < 0 THEN -x ELSE x

RECURSIVE GCD(_, _)
GCD(a, b) == IF b = 0 THEN a ELSE GCD(b, a % b)

\* n/d in lowest terms with a positive denominator (d # 0).
Rat(n, d) ==
    LET g == GCD(Abs(n), Abs(d))
        s == IF d < 0 THEN -1 ELSE 1
    IN  <<(s * n) \div g, (s * d) \div g>>

Flt(n) == <<n, 1>>

RIsZero(x) == x[1] = 0

RAdd(x, y) == Rat(x[1] * y[2] + y[1] * x[2], x[2] * y[2])

RSub(x, y) == Rat(x[1] * y[2] - y[1] * x[2], x[2] * y[2])

RMul(x, y) ==
    LET a == Rat(x[1], y[2])
        b == Rat(y[1], x[2])
    IN  Rat(a[1] * b[1], a[2] * b[2])

\* x / y for y # 0; callers test the divisor first, as Python raises there.
RDiv(x, y) == RMul(x, Rat(y[2], y[1]))

RLt(x, y) == x[1] * y[2] < y[1] * x[2]

RLe(x, y) == x[1] * y[2] <= y[1] * x[2]

RECURSIVE Pow10(_)
Pow10(k) == IF k = 0 THEN 1 ELSE 10 * Pow10(k - 1)

\* f"{x:.<digits>f}": x rounded to <digits> decimals (ties to even), kept
\* as the integer x * 10^digits so that the printed text is determined.
FormatFixed(x, digits) ==
    LET N == x[1] * Pow10(digits)
        q == N \div x[2]
        r == N % x[2]
        up == (2 * r > x[2]) \/ (2 * r = x[2] /\ q % 2 = 1)
    IN  [digits |-> digits, scaled |-> IF up THEN q + 1 ELSE q]

\* f"{x}" of a float.  The only floats printed this way are the literals
\* 3.0 and 1.5, whose shortest repr has one fractional digit.
ReprFloat(x) == FormatFixed(x, 1)

\* ---------------------------------------------------------------------
\* RedundancyType and the class constants of PerformanceBenchmark
\* ---------------------------------------------------------------------

REPLICATION == "Replication (3x)"

ERASURE_CODING == "Erasure Coding (4+2)"

RedundancyType == {REPLICATION, ERASURE_CODING}

DISK_BANDWIDTH_MBPS == 100

NETWORK_BANDWIDTH_MBPS == 5000

REED_SOLOMON_DECODE_RATE == 50

DISK_FAILURE_RATE == <<1, 100>>

STORAGE_COST_PER_TB_MONTH == 10

\* The class attributes as shipped.
DefaultConstants ==
    [DISK_BANDWIDTH_MBPS |-> DISK_BANDWIDTH_MBPS,
     NETWORK_BANDWIDTH_MBPS |-> NETWORK_BANDWIDTH_MBPS,
     REED_SOLOMON_DECODE_RATE |-> REED_SOLOMON_DECODE_RATE,
     DISK_FAILURE_RATE |-> DISK_FAILURE_RATE,
     STORAGE_COST_PER_TB_MONTH |-> STORAGE_COST_PER_TB_MONTH]

\* The class attributes are plain Python class attributes: a test or a
\* deployment may rebind one of them before the program runs.  The model
\* starts from the shipped values or from one overridden attribute.
Configurations ==
    {DefaultConstants}
    \cup {[DefaultConstants EXCEPT !.DISK_BANDWIDTH_MBPS = v] : v \in {-100, 0, 200}}
    \cup {[DefaultConstants EXCEPT !.NETWORK_BANDWIDTH_MBPS = v] : v \in {0}}
    \cup {[DefaultConstants EXCEPT !.REED_SOLOMON_DECODE_RATE = v] : v \in {0, 25}}
    \cup {[DefaultConstants EXCEPT !.STORAGE_COST_PER_TB_MONTH = v] : v \in {20}}

\* main's list of dataset sizes.
sizes == <<1, 10, 100, 1000>>

StandardSizes == {sizes[k] : k \in 1..Len(sizes)}

\* Sizes with which the estimators are called in the model.
Sizes == (0..MaxSize) \cup StandardSizes

VARIABLES
    cfg,        \* the class constants in force
    pc,         \* main's position
    i,          \* main's loop index into sizes
    out,        \* what main has printed, in order
    annual,     \* main's locals repl_annual, ec_annual, savings, percent
    records,    \* every estimator call made so far, with its result
    compared,   \* every compare_metrics call made so far, with its result
    ncalls      \* number of direct calls made

vars == <<cfg, pc, i, out, annual, records, compared, ncalls>>

\* ---------------------------------------------------------------------
\* PerformanceMetrics and the two estimators
\* ---------------------------------------------------------------------

\* Placeholder carried by a call that raised instead of returning.
NoMetrics ==
    [redundancy_type |-> "", data_size_gb |-> 0,
     storage_overhead |-> Flt(0), write_latency_ms |-> Flt(0),
     read_latency_ms |-> Flt(0), encode_cpu_percent |-> Flt(0),
     decode_cpu_percent |-> Flt(0), network_io_gb |-> Flt(0),
     rebuild_time_seconds |-> Flt(0), monthly_cost_dollars |-> Flt(0),
     failure_tolerance |-> 0]

Return(m) == [ok |-> TRUE, exc |-> "", m |-> m]

Raise(exc) == [ok |-> FALSE, exc |-> exc, m |-> NoMetrics]

\* Variant: the factor 3 added instead of multiplied.
repl_network_io_gb_added(data_size_gb) == Flt(data_size_gb + 3)

\* Variant: a running total kept across calls leaks into the result.
repl_network_io_gb_running(data_size_gb) ==
    Flt(data_size_gb * 3 + Cardinality(records))

\* network_io_gb of the replication estimator: three full copies.
repl_network_io_gb(data_size_gb) == Flt(data_size_gb * 3)

\* storage_overhead and failure_tolerance of the two estimators.
repl_storage_overhead == Rat(3, 1)

\* Variant: (4 + 2) / 4 computed with integer division.
ec_storage_overhead_intdiv == Flt(6 \div 4)

ec_storage_overhead == Rat(15, 10)

repl_failure_tolerance == 2

ec_failure_tolerance == 2

\* Variant: the encode time subtracted instead of added.
ec_write_latency_ms_minus(data_size_mb, disk, rate) ==
    LET encode_time_ms == RDiv(data_size_mb, rate)
    IN  RSub(RDiv(data_size_mb, RDiv(disk, Rat(15, 10))), encode_time_ms)

\* write_latency_ms of the erasure-coding estimator (disk # 0, rate # 0).
ec_write_latency_ms(data_size_mb, disk, rate) ==
    LET encode_time_ms == RDiv(data_size_mb, rate)
    IN  RAdd(RDiv(data_size_mb, RDiv(disk, Rat(15, 10))), encode_time_ms)

\* Variant: the decode time left out of the read latency.
ec_read_latency_ms_nodecode(data_size_mb, disk, rate) ==
    RDiv(data_size_mb, RMul(disk, Flt(2)))

\* read_latency_ms of the erasure-coding estimator (disk # 0, rate # 0).
ec_read_latency_ms(data_size_mb, disk, rate) ==
    LET decode_time_ms == RDiv(data_size_mb, rate)
    IN  RAdd(RDiv(data_size_mb, RMul(disk, Flt(2))), decode_time_ms)

\* Variant: the 50 added after the conversion to seconds.
ec_rebuild_time_seconds_late50(data_size_mb, rate) ==
    RAdd(RDiv(RMul(RDiv(data_size_mb, rate), Flt(2)), Flt(1000)), Flt(50))

\* rebuild_time_seconds of the erasure-coding estimator: the time in ms,
\* with the 50 ms write added, then converted to seconds (rate # 0).
ec_rebuild_time_seconds(data_size_mb, rate) ==
    LET rebuild_time == RAdd(RMul(RDiv(data_size_mb, rate), Flt(2)), Flt(50))
    IN  RDiv(rebuild_time, Flt(1000))

benchmark_replication(data_size_gb) ==
    LET disk == Flt(cfg.DISK_BANDWIDTH_MBPS)
        data_size_mb == Flt(data_size_gb * 1024)
    IN  IF RIsZero(disk) THEN Raise("ZeroDivisionError")
        ELSE
        LET write_latency_ms == RMul(RDiv(data_size_mb, disk), Rat(15, 10))
            read_latency_ms == RMul(RDiv(data_size_mb, disk), Rat(11, 10))
            network_io_gb == repl_network_io_gb(data_size_gb)
            rebuild_time == RMul(RDiv(data_size_mb, disk), Rat(12, 10))
            storage_gb == Flt(data_size_gb * 3)
            monthly_cost == RMul(RDiv(storage_gb, Flt(1024)),
                                 Flt(cfg.STORAGE_COST_PER_TB_MONTH))
        IN  Return([redundancy_type |-> REPLICATION,
                    data_size_gb |-> data_size_gb,
                    storage_overhead |-> repl_storage_overhead,
                    write_latency_ms |-> write_latency_ms,
                    read_latency_ms |-> read_latency_ms,
                    encode_cpu_percent |-> Rat(5, 10),
                    decode_cpu_percent |-> Rat(5, 10),
                    network_io_gb |-> network_io_gb,
                    rebuild_time_seconds |-> rebuild_time,
                    monthly_cost_dollars |-> monthly_cost,
                    failure_tolerance |-> repl_failure_tolerance])

benchmark_erasure_coding(data_size_gb) ==
    LET disk == Flt(cfg.DISK_BANDWIDTH_MBPS)
        rate == Flt(cfg.REED_SOLOMON_DECODE_RATE)
        data_size_mb == Flt(data_size_gb * 1024)
    IN  IF RIsZero(rate) \/ RIsZero(disk) THEN Raise("ZeroDivisionError")
        ELSE
        LET write_latency_ms == ec_write_latency_ms(data_size_mb, disk, rate)
            read_latency_ms == ec_read_latency_ms(data_size_mb, disk, rate)
            network_io_gb == RMul(Flt(data_size_gb), Rat(15, 10))
            storage_gb == RMul(Flt(data_size_gb), Rat(15, 10))
            monthly_cost == RMul(RDiv(storage_gb, Flt(1024)),
                                 Flt(cfg.STORAGE_COST_PER_TB_MONTH))
        IN  Return([redundancy_type |-> ERASURE_CODING,
                    data_size_gb |-> data_size_gb,
                    storage_overhead |-> ec_storage_overhead,
                    write_latency_ms |-> write_latency_ms,
                    read_latency_ms |-> read_latency_ms,
                    encode_cpu_percent |-> Rat(15, 1),
                    decode_cpu_percent |-> Rat(12, 1),
                    network_io_gb |-> network_io_gb,
                    rebuild_time_seconds |-> ec_rebuild_time_seconds(data_size_mb, rate),
                    monthly_cost_dollars |-> monthly_cost,
                    failure_tolerance |-> ec_failure_tolerance])

\* ---------------------------------------------------------------------
\* PerformanceMetrics.__str__ and compare_metrics
\* ---------------------------------------------------------------------

\* One block of report text: its heading and the numbers printed under it.
Section(title, vals) == [title |-> title, vals |-> vals]

\* PerformanceMetrics.__str__: the metric dump of one record.
MetricsStr(m) ==
    Section(m.redundancy_type,
            <<ReprFloat(m.storage_overhead),
              FormatFixed(m.write_latency_ms, 1),
              FormatFixed(m.read_latency_ms, 1),
              FormatFixed(m.encode_cpu_percent, 1),
              FormatFixed(m.decode_cpu_percent, 1),
              FormatFixed(m.network_io_gb, 2),
              FormatFixed(m.rebuild_time_seconds, 2),
              FormatFixed(m.monthly_cost_dollars, 0),
              FormatFixed(Flt(m.failure_tolerance), 0)>>)

\* The quotients of compare_metrics, each defined when its divisor is not 0.
storage_ratio(repl, ec) == RDiv(repl.storage_overhead, ec.storage_overhead)

write_ratio(repl, ec) == RDiv(repl.write_latency_ms, ec.write_latency_ms)

read_ratio(repl, ec) == RDiv(repl.read_latency_ms, ec.read_latency_ms)

encode_cpu_ratio(repl, ec) == RDiv(ec.encode_cpu_percent, repl.encode_cpu_percent)

decode_cpu_ratio(repl, ec) == RDiv(ec.decode_cpu_percent, repl.decode_cpu_percent)

network_ratio(repl, ec) == RDiv(repl.network_io_gb, ec.network_io_gb)

rebuild_ratio(repl, ec) == RDiv(repl.rebuild_time_seconds, ec.rebuild_time_seconds)

\* The names of the quotients, in the order the code evaluates them.
RatioNames ==
    <<"storage_ratio", "write_ratio", "read_ratio", "encode_cpu_ratio",
      "decode_cpu_ratio", "network_ratio", "rebuild_ratio">>

\* The divisor of each quotient.
Divisor(name, repl, ec) ==
    CASE name = "storage_ratio" -> ec.storage_overhead
      [] name = "write_ratio" -> ec.write_latency_ms
      [] name = "read_ratio" -> ec.read_latency_ms
      [] name = "encode_cpu_ratio" -> repl.encode_cpu_percent
      [] name = "decode_cpu_ratio" -> repl.decode_cpu_percent
      [] name = "network_ratio" -> ec.network_io_gb
      [] name = "rebuild_ratio" -> ec.rebuild_time_seconds

\* The first quotient, in evaluation order, whose divisor is 0 ("" if none).
RECURSIVE FirstZeroDivisor(_, _, _)
FirstZeroDivisor(k, repl, ec) ==
    IF k > Len(RatioNames) THEN ""
    ELSE IF RIsZero(Divisor(RatioNames[k], repl, ec)) THEN RatioNames[k]
    ELSE FirstZeroDivisor(k + 1, repl, ec)

\* Variant: the two dumps in the other order.
Dumps_swapped(repl, ec) == <<MetricsStr(ec), MetricsStr(repl)>>

\* The two metric dumps, replication first.
Dumps(repl, ec) == <<MetricsStr(repl), MetricsStr(ec)>>

\* The report text of a call that runs to its return statement.
ReportText(data_size_gb, repl, ec) ==
    LET monthly == RSub(repl.monthly_cost_dollars, ec.monthly_cost_dollars)
    IN  <<Section("Performance Comparison", <<FormatFixed(Flt(data_size_gb), 0)>>)>>
        \o Dumps(repl, ec) \o
        <<Section("COMPARISON (EC vs Replication):", <<>>),
          Section("Storage Efficiency:",
                  <<FormatFixed(storage_ratio(repl, ec), 1),
                    FormatFixed(monthly, 0),
                    FormatFixed(RMul(monthly, Flt(12)), 0)>>),
          Section("Write Performance:",
                  <<FormatFixed(write_ratio(repl, ec), 1),
                    FormatFixed(RSub(ec.write_latency_ms, repl.write_latency_ms), 1)>>),
          Section("Read Performance:",
                  <<FormatFixed(read_ratio(repl, ec), 1),
                    FormatFixed(RSub(ec.read_latency_ms, repl.read_latency_ms), 1)>>),
          Section("CPU Overhead:",
                  <<FormatFixed(encode_cpu_ratio(repl, ec), 1),
                    FormatFixed(decode_cpu_ratio(repl, ec), 1)>>),
          Section("Network I/O (Write):",
                  <<FormatFixed(network_ratio(repl, ec), 1),
                    FormatFixed(RSub(repl.network_io_gb, ec.network_io_gb), 2)>>),
          Section("Disk Failure Recovery:",
                  <<FormatFixed(rebuild_ratio(repl, ec), 1),
                    FormatFixed(RSub(repl.rebuild_time_seconds,
                                     ec.rebuild_time_seconds), 2)>>)>>

\* Result of compare_metrics: the report, or the exception and the place
\* ("at") where it was raised; calls lists the estimator calls it made.
compare_metrics(data_size_gb) ==
    LET Body(r, e, rcall, ecall, zero) ==
            IF ~r.ok
            THEN [ok |-> FALSE, exc |-> r.exc, at |-> "benchmark_replication",
                  report |-> <<>>, calls |-> {rcall}]
            ELSE IF ~e.ok
            THEN [ok |-> FALSE, exc |-> e.exc, at |-> "benchmark_erasure_coding",
                  report |-> <<>>, calls |-> {rcall, ecall}]
            ELSE IF zero # ""
            THEN [ok |-> FALSE, exc |-> "ZeroDivisionError", at |-> zero,
                  report |-> <<>>, calls |-> {rcall, ecall}]
            ELSE [ok |-> TRUE, exc |-> "", at |-> "",
                  report |-> ReportText(data_size_gb, r.m, e.m),
                  calls |-> {rcall, ecall}]
        Calls(r, e) ==
            Body(r, e,
                 [strategy |-> REPLICATION, size |-> data_size_gb,
                  ok |-> r.ok, m |-> r.m],
                 [strategy |-> ERASURE_CODING, size |-> data_size_gb,
                  ok |-> e.ok, m |-> e.m],
                 IF r.ok /\ e.ok THEN FirstZeroDivisor(1, r.m, e.m) ELSE "")
    IN  Calls(benchmark_replication(data_size_gb),
              benchmark_erasure_coding(data_size_gb))

\* ---------------------------------------------------------------------
\* State, history of calls, and the direct calls
\* ---------------------------------------------------------------------

NoAnnual ==
    [repl_annual |-> Flt(0), ec_annual |-> Flt(0),
     savings |-> Flt(0), percent |-> Flt(0)]

Init ==
    /\ cfg \in Configurations
    /\ pc = "start"
    /\ i = 1
    /\ out = <<>>
    /\ annual = NoAnnual
    /\ records = {}
    /\ compared = {}
    /\ ncalls = 0

\* The history entry of one estimator call.
CallEntry(strategy, data_size_gb, result) ==
    [strategy |-> strategy, size |-> data_size_gb,
     ok |-> result.ok, m |-> result.m]

\* The history entry of one compare_metrics call.
CompareEntry(data_size_gb, c) ==
    [size |-> data_size_gb, ok |-> c.ok, exc |-> c.exc, at |-> c.at,
     report |-> c.report]

\* A caller (a test, an importer of the module) calls benchmark_replication.
CallReplication(data_size_gb) ==
    /\ ncalls < MaxCalls
    /\ ncalls' = ncalls + 1
    /\ records' = records \cup
           {CallEntry(REPLICATION, data_size_gb, benchmark_replication(data_size_gb))}
    /\ UNCHANGED <<cfg, pc, i, out, annual, compared>>

\* A caller calls benchmark_erasure_coding.
CallErasureCoding(data_size_gb) ==
    /\ ncalls < MaxCalls
    /\ ncalls' = ncalls + 1
    /\ records' = records \cup
           {CallEntry(ERASURE_CODING, data_size_gb,
                      benchmark_erasure_coding(data_size_gb))}
    /\ UNCHANGED <<cfg, pc, i, out, annual, compared>>

\* A caller calls compare_metrics.
CallCompareMetrics(data_size_gb) ==
    \E c \in {compare_metrics(data_size_gb)} :
        /\ ncalls < MaxCalls
        /\ ncalls' = ncalls + 1
        /\ records' = records \cup c.calls
        /\ compared' = compared \cup {CompareEntry(data_size_gb, c)}
        /\ UNCHANGED <<cfg, pc, i, out, annual>>

\* ---------------------------------------------------------------------
\* main()
\* ---------------------------------------------------------------------

Printed(kind, body) == [kind |-> kind, body |-> body]

\* Variant: scaled by 1024 (as in the unused data_size_1pb_gb) instead of 1000.
annual_cost_1024(m) == RMul(RMul(m.monthly_cost_dollars, Flt(1024)), Flt(12))

\* Annual cost of one strategy from its monthly cost at size 1.
annual_cost(m) == RMul(RMul(m.monthly_cost_dollars, Flt(1000)), Flt(12))

\* The three prints that open the output.
MainBanner ==
    /\ pc = "start"
    /\ out' = Append(out, Printed("banner", <<>>))
    /\ pc' = "loop"
    /\ UNCHANGED <<cfg, i, annual, records, compared, ncalls>>

\* One iteration of the loop over sizes: build the report and print it.
\* An exception raised by compare_metrics ends main.
MainReport ==
    /\ pc = "loop"
    /\ \E c \in {compare_metrics(sizes[i])} :
           /\ records' = records \cup c.calls
           /\ compared' = compared \cup {CompareEntry(sizes[i], c)}
           /\ IF c.ok
              THEN /\ out' = Append(out, Printed("report", c.report))
                   /\ i' = i + 1
                   /\ pc' = IF i = Len(sizes) THEN "annual" ELSE "loop"
              ELSE /\ pc' = "raised"
                   /\ UNCHANGED <<out, i>>
    /\ UNCHANGED <<cfg, annual, ncalls>>

\* The annual cost analysis: heading, the two estimator calls at size 1,
\* the three cost lines, then the percentage line.
MainAnnual ==
    /\ pc = "annual"
    /\ \E r \in {benchmark_replication(1)}, e \in {benchmark_erasure_coding(1)},
          heading \in {Printed("annual heading", <<>>)} :
           IF ~r.ok
           THEN /\ records' = records \cup {CallEntry(REPLICATION, 1, r)}
                /\ out' = Append(out, heading)
                /\ pc' = "raised"
                /\ UNCHANGED annual
           ELSE IF ~e.ok
           THEN /\ records' = records \cup {CallEntry(REPLICATION, 1, r),
                                            CallEntry(ERASURE_CODING, 1, e)}
                /\ out' = Append(out, heading)
                /\ pc' = "raised"
                /\ UNCHANGED annual
           ELSE
           \E repl_annual \in {annual_cost(r.m)}, ec_annual \in {annual_cost(e.m)} :
           \E savings \in {RSub(repl_annual, ec_annual)} :
           \E costs \in {Printed("annual costs",
                                 <<Section("ANNUAL COST ANALYSIS",
                                           <<FormatFixed(repl_annual, 0),
                                             FormatFixed(ec_annual, 0),
                                             FormatFixed(savings, 0)>>)>>)} :
               /\ records' = records \cup {CallEntry(REPLICATION, 1, r),
                                           CallEntry(ERASURE_CODING, 1, e)}
               /\ IF RIsZero(repl_annual)
                  THEN /\ out' = out \o <<heading, costs>>
                       /\ annual' = [repl_annual |-> repl_annual,
                                     ec_annual |-> ec_annual,
                                     savings |-> savings, percent |-> Flt(0)]
                       /\ pc' = "raised"
                  ELSE \E percent \in {RMul(RDiv(savings, repl_annual), Flt(100))} :
                           /\ out' = out \o
                                <<heading, costs,
                                  Printed("annual percent",
                                          <<Section("Savings %",
                                                    <<FormatFixed(percent, 1)>>)>>)>>
                           /\ annual' = [repl_annual |-> repl_annual,
                                         ec_annual |-> ec_annual,
                                         savings |-> savings, percent |-> percent]
                           /\ pc' = "recommend"
    /\ UNCHANGED <<cfg, i, compared, ncalls>>

\* The fixed table of recommendations per workload tier.
recommendations ==
    <<Section("HOT (>100 ops/day)",
              <<"Replication (3x)", "Low latency critical for frequent access",
                "50-100 per second">>),
      Section("WARM (10-100 ops/day)",
              <<"Replication (3x) or Hybrid", "Balanced performance and cost",
                "5-10 per second">>),
      Section("COLD (<10 ops/day)",
              <<"Erasure Coding (4+2)",
                "Cost efficiency more important than latency",
                "<1 per second">>)>>

MainRecommend ==
    /\ pc = "recommend"
    /\ out' = Append(out, Printed("recommendations", recommendations))
    /\ pc' = "done"
    /\ UNCHANGED <<cfg, i, annual, records, compared, ncalls>>

Next ==
    \/ MainBanner
    \/ MainReport
    \/ MainAnnual
    \/ MainRecommend
    \/ \E data_size_gb \in Sizes : CallReplication(data_size_gb)
    \/ \E data_size_gb \in Sizes : CallErasureCoding(data_size_gb)
    \/ \E data_size_gb \in Sizes : CallCompareMetrics(data_size_gb)

Spec == Init /\ [][Next]_vars

\* ---------------------------------------------------------------------
\* Properties
\* ---------------------------------------------------------------------

\* The recorded call of an estimator at a size.
RecOf(strategy, data_size_gb) ==
    CHOOSE e \in records : e.strategy = strategy /\ e.size = data_size_gb

Called(strategy, data_size_gb) ==
    \E e \in records : e.strategy = strategy /\ e.size = data_size_gb /\ e.ok

\* Both estimators returned a record at this size.
BothReturned(data_size_gb) ==
    Called(REPLICATION, data_size_gb) /\ Called(ERASURE_CODING, data_size_gb)

Titles(report) == [k \in 1..Len(report) |-> report[k].title]

\* The number printed first under a heading of a report.
PrintedRatio(report, title) ==
    LET k == CHOOSE j \in 1..Len(report) : report[j].title = title
    IN  report[k].vals[1]

RatesNonZero ==
    cfg.DISK_BANDWIDTH_MBPS # 0 /\ cfg.REED_SOLOMON_DECODE_RATE # 0

RatesPositive ==
    /\ cfg.DISK_BANDWIDTH_MBPS > 0
    /\ cfg.NETWORK_BANDWIDTH_MBPS > 0
    /\ cfg.REED_SOLOMON_DECODE_RATE > 0

\* C1: every record returned by benchmark_replication has storage_overhead
\* 3.0 and failure_tolerance 2, every record returned by
\* benchmark_erasure_coding has storage_overhead 1.5 and failure_tolerance 2,
\* whatever the size (0 included) and whatever the constants; and with
\* non-zero rates every call returns a record.
C1_FixedOverheadAndTolerance ==
    \A e \in records :
        /\ RatesNonZero => e.ok
        /\ e.ok /\ e.strategy = REPLICATION =>
               e.m.storage_overhead = <<3, 1>> /\ e.m.failure_tolerance = 2
        /\ e.ok /\ e.strategy = ERASURE_CODING =>
               e.m.storage_overhead = <<3, 2>> /\ e.m.failure_tolerance = 2

\* C1 witness: under overridden constants both estimators have returned,
\* one at size 0 and one at a positive size.
C1_Witness ==
    /\ cfg # DefaultConstants
    /\ Called(REPLICATION, 0)
    /\ \E e \in records : e.ok /\ e.strategy = ERASURE_CODING /\ e.size > 0

\* C2 as stated: with the default constants, for every size with which
\* compare_metrics was called, size 0 included, the network I/O quotient is
\* defined (its divisor is not 0) and equals exactly 2.
C2_NetworkRatioAnySize ==
    \A c \in compared :
        cfg = DefaultConstants /\ BothReturned(c.size) =>
            LET r == RecOf(REPLICATION, c.size).m
                e == RecOf(ERASURE_CODING, c.size).m
            IN  /\ ~RIsZero(e.network_io_gb)
                /\ network_ratio(r, e) = <<2, 1>>

\* C2 amended: for every positive size with which compare_metrics was called
\* and for which both estimators returned, the network I/O quotient is
\* defined and equals exactly 2, no exception is raised at it, and a
\* completed report prints it as 2.0.
C2_NetworkRatioPositiveSize ==
    \A c \in compared :
        c.size > 0 /\ BothReturned(c.size) =>
            LET r == RecOf(REPLICATION, c.size).m
                e == RecOf(ERASURE_CODING, c.size).m
            IN  /\ ~RIsZero(e.network_io_gb)
                /\ network_ratio(r, e) = <<2, 1>>
                /\ c.at # "network_ratio"
                /\ c.ok => PrintedRatio(c.report, "Network I/O (Write):")
                               = [digits |-> 1, scaled |-> 20]

\* C2 witness: compare_metrics has returned a report for a positive size.
C2_Witness ==
    \E c \in compared : c.size > 0 /\ c.ok /\ BothReturned(c.size)

\* C3 as stated: with the default constants, compare_metrics never reaches
\* a quotient whose divisor is zero, i.e. no call, at size 0 or above,
\* raises ZeroDivisionError at one of its quotients.
C3_NoZeroDivisorReached ==
    cfg = DefaultConstants =>
        \A c \in compared :
            \A k \in 1..Len(RatioNames) : c.at # RatioNames[k]

\* C4 as stated: when a rate constant is zero or negative, nothing is
\* printed and no estimator is evaluated.
C4_FailFastOnBadRate ==
    ~RatesPositive => out = <<>> /\ records = {} /\ compared = {}

\* C5: with positive rate and cost constants (the defaults among them), for
\* two records of the same strategy, the one of the larger size has write
\* latency, read latency, network I/O and monthly cost at least as large.
C5_Monotone ==
    RatesPositive /\ cfg.STORAGE_COST_PER_TB_MONTH > 0 =>
        \A a, b \in records :
            a.ok /\ b.ok /\ a.strategy = b.strategy /\ a.size <= b.size =>
                /\ RLe(a.m.write_latency_ms, b.m.write_latency_ms)
                /\ RLe(a.m.read_latency_ms, b.m.read_latency_ms)
                /\ RLe(a.m.network_io_gb, b.m.network_io_gb)
                /\ RLe(a.m.monthly_cost_dollars, b.m.monthly_cost_dollars)

\* C5 witness: under the default constants, each strategy has records at
\* two different sizes.
C5_Witness ==
    /\ cfg = DefaultConstants
    /\ \A t \in RedundancyType :
           \E a, b \in records :
               /\ a.ok /\ b.ok /\ a.strategy = t /\ b.strategy = t
               /\ a.size < b.size
               /\ RLt(a.m.write_latency_ms, b.m.write_latency_ms)

\* C6: once main has printed the annual analysis, each annual cost is the
\* monthly cost the estimator returned at size 1 times 12000, savings is
\* their difference, and the percentage lies strictly between 0 and 100;
\* with the default constants the costs are 351.5625 and 175.78125 and the
\* percentage is 50.
C6_AnnualProjection ==
    pc \in {"recommend", "done"} =>
        LET r == RecOf(REPLICATION, 1).m
            e == RecOf(ERASURE_CODING, 1).m
        IN  /\ annual.repl_annual = RMul(r.monthly_cost_dollars, Flt(12000))
            /\ annual.ec_annual = RMul(e.monthly_cost_dollars, Flt(12000))
            /\ RAdd(annual.savings, annual.ec_annual) = annual.repl_annual
            /\ RLt(Flt(0), annual.percent) /\ RLt(annual.percent, Flt(100))
            /\ cfg = DefaultConstants =>
                   /\ annual.repl_annual = <<5625, 16>>
                   /\ annual.ec_annual = <<5625, 32>>
                   /\ annual.percent = <<50, 1>>

\* C6 witness: main has finished under the default constants.
C6_Witness ==
    pc = "done" /\ cfg = DefaultConstants /\ annual.percent = <<50, 1>>

C8_ReportSections ==
    \A c \in compared :
        c.size \in StandardSizes =>
            /\ RatesNonZero => c.ok
            /\ c.ok =>
                   Titles(c.report) =
                       <<"Performance Comparison",
                         "Replication (3x)",
                         "Erasure Coding (4+2)",
                         "COMPARISON (EC vs Replication):",
                         "Storage Efficiency:",
                         "Write Performance:",
                         "Read Performance:",
                         "CPU Overhead:",
                         "Network I/O (Write):",
                         "Disk Failure Recovery:">>

\* C8 witness: main has printed the reports of all four sizes.
C8_Witness ==
    /\ pc = "annual"
    /\ \A s \in StandardSizes : \E c \in compared : c.size = s /\ c.ok

\* C9: the rebuild time n/d of a record returned by the erasure-coding
\* estimator satisfies n * 1000 * rate = d * (size * 1024 * 2 + 50 * rate),
\* i.e. it is (size * 1024 / rate * 2 + 50) / 1000; at size 0 it is 1/20.
C9_RebuildTime ==
    \A e \in records :
        e.ok /\ e.strategy = ERASURE_CODING =>
            LET t == e.m.rebuild_time_seconds
                rate == cfg.REED_SOLOMON_DECODE_RATE
            IN  /\ t[1] * 1000 * rate = t[2] * (e.size * 1024 * 2 + 50 * rate)
                /\ e.size = 0 => t = <<1, 20>>

\* C9 witness: the erasure-coding estimator has returned at size 0 and at
\* size 1000.
C9_Witness ==
    Called(ERASURE_CODING, 0) /\ Called(ERASURE_CODING, 1000)

====
